---- MODULE Spec2Model ----
(***************************************************************************)
(* A model of the geobed in-memory geocoder (src/geobed.go).               *)
(*                                                                         *)
(* Strings are sequences of byte values (ASCII codes), so that toLower,    *)
(* prev, prefix slicing, splitting and the regular expressions of Geocode  *)
(* are computed byte by byte as the Go code computes them.  A geohash is a *)
(* sequence of 12 base-32 digit values (0..31) instead of the 12 letters   *)
(* that print them: "7zzzzzzzzzzz" is <<7, 31, 31, ..., 31>>.              *)
(***************************************************************************)
EXTENDS Integers, Sequences, FiniteSets, TLC

(***************************************************************************)
(* Bytes used by the model's data and queries.                             *)
(***************************************************************************)
chSpace == 32
chComma == 44

\* The letters of the model's alphabet: M, N, m, n.
Ch == [M |-> 77, N |-> 78, m |-> 109, n |-> 110]

(***************************************************************************)
(* Generic helpers on sequences.                                           *)
(***************************************************************************)
Range(s) == {s[i] : i \in DOMAIN s}

Min2(a, b) == IF a < b THEN a ELSE b

\* s[from..] as Go's s[from:], with 0-based offset `from`.
Drop(s, from) == SubSeq(s, from + 1, Len(s))

\* s[:to] as Go's s[:to].
Take(s, to) == SubSeq(s, 1, to)

\* s[from:to] of Go (0-based, `to` exclusive).
Slice(s, from, to) == SubSeq(s, from + 1, to)

HasPrefix(s, p) == Len(p) <= Len(s) /\ Take(s, Len(p)) = p

HasSuffix(s, p) == Len(p) <= Len(s) /\ Drop(s, Len(s) - Len(p)) = p

\* All the orders in which the elements of a finite set can be enumerated
\* (the iteration orders of a Go map over those keys).
RECURSIVE Orders(_)
Orders(S) ==
  IF S = {} THEN {<< >>}
  ELSE UNION {{<<x>> \o o : o \in Orders(S \ {x})} : x \in S}

(***************************************************************************)
(* toLower / toUpper: ASCII only, byte by byte.                            *)
(***************************************************************************)
toLowerByte(c) == IF c >= 65 /\ c <= 90 THEN c + 32 ELSE c

toUpperByte(c) == IF c >= 97 /\ c <= 122 THEN c - 32 ELSE c

toLower(s) == [i \in DOMAIN s |-> toLowerByte(s[i])]

toUpper(s) == [i \in DOMAIN s |-> toUpperByte(s[i])]

\* prev(r) = r - 1: the previous character of the alphabet.
prev(r) == r - 1

\* strings.EqualFold on ASCII text: equal after case folding.
EqualFold(a, b) == toLower(a) = toLower(b)

\* The < of Go strings: lexicographic order on bytes.
RECURSIVE StrLess(_, _)
StrLess(a, b) ==
  IF b = << >> THEN FALSE
  ELSE IF a = << >> THEN TRUE
  ELSE IF a[1] # b[1] THEN a[1] < b[1]
  ELSE StrLess(Tail(a), Tail(b))

\* strings.Contains(s, sub); the empty string is contained in every string.
Contains(s, sub) ==
  \E i \in 0..(Len(s) - Len(sub)) : Slice(s, i, i + Len(sub)) = sub

IsSpace(c) == c = chSpace

\* strings.Trim(s, cutset): strip leading and trailing bytes of cutset.
RECURSIVE TrimLeft(_, _)
TrimLeft(s, cutset) ==
  IF s # << >> /\ s[1] \in cutset THEN TrimLeft(Tail(s), cutset) ELSE s

RECURSIVE TrimRight(_, _)
TrimRight(s, cutset) ==
  IF s # << >> /\ s[Len(s)] \in cutset
  THEN TrimRight(Take(s, Len(s) - 1), cutset) ELSE s

Trim(s, cutset) == TrimRight(TrimLeft(s, cutset), cutset)

\* A TrimSpace that forgets to trim (a variant the properties of blank
\* queries are tried against).
KeepSpace(s) == s

\* strings.TrimSpace(s).
TrimSpace(s) == Trim(s, {chSpace})

\* strings.TrimSuffix(s, suffix).
TrimSuffix(s, suffix) ==
  IF HasSuffix(s, suffix) THEN Take(s, Len(s) - Len(suffix)) ELSE s

\* strings.Split(s, " "): the pieces between single spaces, empty pieces kept.
RECURSIVE SplitAt(_, _, _)
SplitAt(s, sep, cur) ==
  IF s = << >> THEN <<cur>>
  ELSE IF s[1] = sep THEN <<cur>> \o SplitAt(Tail(s), sep, << >>)
  ELSE SplitAt(Tail(s), sep, Append(cur, s[1]))

Split(s, sep) == SplitAt(s, sep, << >>)

\* strings.Fields(s): the maximal runs of non-space bytes.
Fields(s) == SelectSeq(Split(s, chSpace), LAMBDA f : f # << >>)

(***************************************************************************)
(* geohash.Encode(lat, lng): 12 base-32 digits, 5 bits each, longitude and *)
(* latitude bits interleaved (longitude first), each bit one bisection of  *)
(* the current interval: 1 when the coordinate is strictly above the       *)
(* midpoint, which then becomes the lower end, else the upper end.         *)
(* Coordinates are fixed-point integers: latitude in units of 90/2^29      *)
(* degrees (-2^29..2^29), longitude in units of 180/2^29 degrees, so that  *)
(* all 30 midpoints of each axis are integers.                             *)
(***************************************************************************)
GeohashLen == 12

CoordMax == 2^29

\* The interval [lo, hi] of coordinate x after `steps` bisections.
RECURSIVE Bisect(_, _, _, _)
Bisect(x, lo, hi, steps) ==
  IF steps = 0 THEN [lo |-> lo, hi |-> hi]
  ELSE LET mid == (lo + hi) \div 2
       IN IF x > mid THEN Bisect(x, mid, hi, steps - 1)
          ELSE Bisect(x, lo, mid, steps - 1)

\* The five bits of digit d (1-based): bits 5d-5 .. 5d-1 of the stream, the
\* even ones longitude bits and the odd ones latitude bits.
DigitBit(lat, lng, k) ==
  LET x == IF k % 2 = 0 THEN lng ELSE lat
      iv == Bisect(x, 0 - CoordMax, CoordMax, k \div 2)
  IN IF x > (iv.lo + iv.hi) \div 2 THEN 1 ELSE 0

Encode(lat, lng) ==
  [d \in 1..GeohashLen |->
     16 * DigitBit(lat, lng, 5 * d - 5) + 8 * DigitBit(lat, lng, 5 * d - 4)
       + 4 * DigitBit(lat, lng, 5 * d - 3) + 2 * DigitBit(lat, lng, 5 * d - 2)
       + DigitBit(lat, lng, 5 * d - 1)]

\* "7zzzzzzzzzzz": what Encode gives for latitude 0, longitude 0.
OriginGeohash == [d \in 1..GeohashLen |-> IF d = 1 THEN 7 ELSE 31]

(***************************************************************************)
(* GeobedCity and CountryInfo.  Of CountryInfo only the two fields the     *)
(* geocoder reads are kept.                                                *)
(***************************************************************************)
GeobedCity(city, alt, country, region, lat, lng, pop, gh) ==
  [City |-> city, CityLower |-> toLower(city), CityAlt |-> alt,
   Country |-> country, Region |-> region, Latitude |-> lat,
   Longitude |-> lng, Population |-> pop, Geohash |-> gh]

\* var c GeobedCity: the zero value, returned for degenerate input.
EmptyCity ==
  [City |-> << >>, CityLower |-> << >>, CityAlt |-> << >>, Country |-> << >>,
   Region |-> << >>, Latitude |-> 0, Longitude |-> 0, Population |-> 0,
   Geohash |-> << >>]

CountryInfo(country, iso) == [Country |-> country, ISO |-> iso]

\* Cities.Less(i, j): the order sort.Sort sorts by.
Less(c, i, j) == StrLess(c[i].CityLower, c[j].CityLower)

(***************************************************************************)
(* ReverseGeocode.  The loop over g.c is a fold over the positions 1..n    *)
(* (Go's k = position - 1).  Indexing v.Geohash[0] of an empty geohash is  *)
(* an index-out-of-range panic: the fold stops there with kind "panic".    *)
(* `scanned` counts the records the loop has examined.                     *)
(***************************************************************************)
\* matched = 2, then +1 for each i in 2..len(gh) with equal i-byte prefixes.
RECURSIVE CountMatched(_, _, _)
CountMatched(vgh, gh, i) ==
  IF i > Len(gh) THEN 0
  ELSE (IF Take(vgh, i) = Take(gh, i) THEN 1 ELSE 0) + CountMatched(vgh, gh, i + 1)

Matched(vgh, gh) == 2 + CountMatched(vgh, gh, 2)

RECURSIVE ReverseScan(_, _, _, _, _)
ReverseScan(c, gh, k, best, mostMatched) ==
  IF k > Len(c) THEN [kind |-> "ok", city |-> best, scanned |-> Len(c)]
  ELSE LET v == c[k]
       IN IF v.Geohash = << >>
          THEN [kind |-> "panic", city |-> EmptyCity, scanned |-> k]
          ELSE IF v.Geohash[1] = gh[1] /\ v.Geohash[2] = gh[2]
          THEN LET matched == Matched(v.Geohash, gh)
                   tie == IF matched = mostMatched /\ v.Population > best.Population
                          THEN v ELSE best
               IN IF matched > mostMatched
                  THEN ReverseScan(c, gh, k + 1, v, matched)
                  ELSE ReverseScan(c, gh, k + 1, tie, mostMatched)
          ELSE ReverseScan(c, gh, k + 1, best, mostMatched)

\* A ReverseGeocode without the test of line 735 (a variant the property of
\* the degenerate geohash is tried against).
ReverseGeocodeNoSentinel(c, lat, lng) ==
  ReverseScan(c, Encode(lat, lng), 1, EmptyCity, 0)

ReverseGeocode(c, lat, lng) ==
  LET gh == Encode(lat, lng)
  IN IF gh = OriginGeohash
     THEN [kind |-> "ok", city |-> EmptyCity, scanned |-> 0]
     ELSE ReverseScan(c, gh, 1, EmptyCity, 0)

(***************************************************************************)
(* The regular expressions of Geocode.  \s is the space byte (the only     *)
(* white space of the model's alphabet), (?i) is ASCII case folding.  A    *)
(* match is tried at a 0-based offset `pos` of n, the alternatives in the  *)
(* order they are written (leftmost-first); the result is the end offset   *)
(* of the match, or -1.  ^ holds at offset 0 only and $ at len(n) only.    *)
(***************************************************************************)
\* The literal `lit`, case-insensitively, at offset pos: the offset after it, or -1.
LitAt(n, pos, lit) ==
  IF pos >= 0 /\ pos + Len(lit) <= Len(n) /\ EqualFold(Slice(n, pos, pos + Len(lit)), lit)
  THEN pos + Len(lit) ELSE -1

\* \s at offset pos.
SpaceAt(n, pos) ==
  IF pos >= 0 /\ pos < Len(n) /\ IsSpace(n[pos + 1]) THEN pos + 1 ELSE -1

\* ,?\s at offset pos (greedy comma, then without it).
OptCommaSpaceAt(n, pos) ==
  IF pos >= 0 /\ pos < Len(n) /\ n[pos + 1] = chComma /\ SpaceAt(n, pos + 1) # -1
  THEN SpaceAt(n, pos + 1)
  ELSE SpaceAt(n, pos)

EndAt(n, pos) == IF pos = Len(n) THEN pos ELSE -1

\* "(?i)^" + sc + ",?\\s|\\s" + sc + ",?\\s|\\s" + sc + "$"
StateMatchAt(n, pos, sc) ==
  LET a1 == IF pos = 0 THEN OptCommaSpaceAt(n, LitAt(n, pos, sc)) ELSE -1
      a2 == OptCommaSpaceAt(n, LitAt(n, SpaceAt(n, pos), sc))
      a3 == EndAt(n, LitAt(n, SpaceAt(n, pos), sc))
  IN IF a1 # -1 THEN a1 ELSE IF a2 # -1 THEN a2 ELSE a3

\* "(?i)^" + co + ",?\\s|\\s" + co + ",?\\s" + co + "\\s$"
CountryMatchAt(n, pos, co) ==
  LET a1 == IF pos = 0 THEN OptCommaSpaceAt(n, LitAt(n, pos, co)) ELSE -1
      a2 == EndAt(n, SpaceAt(n, LitAt(n,
               OptCommaSpaceAt(n, LitAt(n, SpaceAt(n, pos), co)), co)))
  IN IF a1 # -1 THEN a1 ELSE a2

\* The expression `re` ("state" or "country") built from the literal lit,
\* tried at offset pos.
MatchAt(re, n, pos, lit) ==
  IF re = "state" THEN StateMatchAt(n, pos, lit) ELSE CountryMatchAt(n, pos, lit)

\* re.MatchString(n): a match at some offset.
ReMatch(re, n, lit) ==
  \E pos \in 0..Len(n) : MatchAt(re, n, pos, lit) # -1

\* re.ReplaceAllString(n, ""): every match removed, scanning left to right,
\* the search resuming where the previous match ended.
RECURSIVE ReRemoveFrom(_, _, _, _)
ReRemoveFrom(re, n, lit, pos) ==
  IF pos >= Len(n) THEN << >>
  ELSE LET e == MatchAt(re, n, pos, lit)
       IN IF e # -1 THEN ReRemoveFrom(re, n, lit, e)
          ELSE <<n[pos + 1]>> \o ReRemoveFrom(re, n, lit, pos + 1)

ReRemoveAll(re, n, lit) == ReRemoveFrom(re, n, lit, 0)

\* regexp `[\S]{2,3}`, FindStringSubmatch: the leftmost run of two non-space
\* bytes, extended to a third when there is one; a slice of that one match,
\* or the empty slice.
RECURSIVE FindAbbrevFrom(_, _)
FindAbbrevFrom(n, pos) ==
  IF pos + 2 > Len(n) THEN << >>
  ELSE IF ~IsSpace(n[pos + 1]) /\ ~IsSpace(n[pos + 2])
  THEN IF pos + 3 <= Len(n) /\ ~IsSpace(n[pos + 3])
       THEN <<Slice(n, pos, pos + 3)>>
       ELSE <<Slice(n, pos, pos + 2)>>
  ELSE FindAbbrevFrom(n, pos + 1)

FindAbbrev(n) == FindAbbrevFrom(n, 0)

(***************************************************************************)
(* UsSateCodes: the keys of the table.  Of its 62 codes, MN and NM are the *)
(* ones spelled with the letters of the model's alphabet; no other code    *)
(* can match a query over that alphabet.                                   *)
(***************************************************************************)
UsSateCodes == {<<Ch.M, Ch.N>>, <<Ch.N, Ch.M>>}

(***************************************************************************)
(* Geocode, first half (lines 463-537): trim, abbreviations, country and   *)
(* state detection, tokens, and the ranges resolved from cityNameIdx.      *)
(* Positions of g.c and the values of cityNameIdx are Go's 0-based         *)
(* indexes: At(c, k) is g.c[k].                                            *)
(***************************************************************************)
At(c, k) == c[k + 1]

\* for _, co := range g.co { if re.MatchString(n) { nCo = co.ISO; n = re.ReplaceAllString(n, "") } }
\* string(b) of a byte or rune below 0x800: the UTF-8 encoding of the code
\* point b, one byte below 0x80 and two bytes from there on (lines 434, 518
\* and 520).
RuneString(b) ==
  IF b < 128 THEN <<b>> ELSE <<192 + (b \div 64), 128 + (b % 64)>>

RECURSIVE CountryLoop(_, _, _, _)
CountryLoop(co, i, n, nCo) ==
  IF i > Len(co) THEN [n |-> n, nCo |-> nCo]
  ELSE IF ReMatch("country", n, co[i].Country)
  THEN CountryLoop(co, i + 1, ReRemoveAll("country", n, co[i].Country), co[i].ISO)
  ELSE CountryLoop(co, i + 1, n, nCo)

\* for sc, _ := range UsSateCodes { ... }: `order` is the order in which the
\* map is enumerated this time.
RECURSIVE StateLoop(_, _, _, _)
StateLoop(order, i, n, nSt) ==
  IF i > Len(order) THEN [n |-> n, nSt |-> nSt]
  ELSE IF ReMatch("state", n, order[i])
  THEN StateLoop(order, i + 1, ReRemoveAll("state", n, order[i]), order[i])
  ELSE StateLoop(order, i + 1, n, nSt)

\* A range whose default end is one past the length of g.c (a variant the
\* bounds of the ranges are tried against).
RangeOfPastEnd(c, idx, ns) ==
  LET fc == toLower(RuneString(ns[1]))
      pik == RuneString(prev(fc[1]))
      fk == IF pik \in DOMAIN idx THEN idx[pik] ELSE 0
      tk0 == IF fc \in DOMAIN idx THEN idx[fc] ELSE 0
  IN [f |-> fk, t |-> IF tk0 = 0 THEN Len(c) + 1 ELSE tk0]

\* The range r{fk, tk} of one non-empty token.
RangeOf(c, idx, ns) ==
  LET fc == toLower(RuneString(ns[1]))
      pik == RuneString(prev(fc[1]))
      fk == IF pik \in DOMAIN idx THEN idx[pik] ELSE 0
      tk0 == IF fc \in DOMAIN idx THEN idx[fc] ELSE 0
      tk == IF tk0 = 0 THEN Len(c) - 1 ELSE tk0
  IN [f |-> fk, t |-> tk]

RECURSIVE RangesOf(_, _, _, _)
RangesOf(c, idx, nSlice, i) ==
  IF i > Len(nSlice) THEN << >>
  ELSE LET ns == TrimSuffix(nSlice[i], <<chComma>>)
       IN (IF Len(ns) > 0 THEN <<RangeOf(c, idx, ns)>> ELSE << >>)
            \o RangesOf(c, idx, nSlice, i + 1)

\* What the first half leaves in the locals of the call.  `empty` is the
\* early return of line 468.
GeocodeParse(c, co, idx, q, stOrder) ==
  LET n0 == TrimSpace(q)
      abbrevSlice == FindAbbrev(n0)
      afterCo == CountryLoop(co, 1, n0, << >>)
      afterSt == StateLoop(stOrder, 1, afterCo.n, << >>)
      n == Trim(afterSt.n, {chSpace, chComma})
      nSlice == Split(n, chSpace)
  IN IF n0 = << >>
     THEN [empty |-> TRUE, n |-> << >>, nCo |-> << >>, nSt |-> << >>,
           abbrevSlice |-> << >>, nSlice |-> << >>, ranges |-> << >>]
     ELSE [empty |-> FALSE, n |-> n, nCo |-> afterCo.nCo, nSt |-> afterSt.nSt,
           abbrevSlice |-> abbrevSlice, nSlice |-> nSlice,
           ranges |-> RangesOf(c, idx, nSlice, 1)]

(***************************************************************************)
(* Geocode, second half (lines 539-722): the scan of the ranges, the       *)
(* population bonus and the choice of the winner.                          *)
(***************************************************************************)
\* g.c[rng.f:rng.t] is a valid slice expression.
RangeOK(c, r) == 0 <= r.f /\ r.f <= r.t /\ r.t <= Len(c)

\* The records one range enumerates, each with the currentKey it is scored
\* under: currentKey starts at rng.f and is incremented before it is used.
ScanRange(c, r) ==
  [j \in 1..(r.t - r.f) |-> [key |-> r.f + j, v |-> At(c, r.f + j - 1)]]

RECURSIVE ScanAll(_, _, _)
ScanAll(c, ranges, i) ==
  IF i > Len(ranges) THEN << >>
  ELSE ScanRange(c, ranges[i]) \o ScanAll(c, ranges, i + 1)

\* Lines 549-553: the "City, ST" shortcut.
IsExact(v, p) ==
  p.nSt # << >> /\ EqualFold(p.n, v.City) /\ EqualFold(p.nSt, v.Region)

B2N(b) == IF b THEN 1 ELSE 0

\* Lines 575-593.
RECURSIVE AbbrevPoints(_, _, _)
AbbrevPoints(v, abbrevSlice, i) ==
  IF i > Len(abbrevSlice) THEN 0
  ELSE LET av == abbrevSlice[i]
           lowerAv == toLower(av)
       IN 5 * B2N(Len(av) = 2 /\ EqualFold(v.Region, lowerAv))
          + 3 * B2N(Len(av) = 2 /\ EqualFold(v.Country, lowerAv))
          + AbbrevPoints(v, abbrevSlice, i + 1)

\* Lines 618-637.
RECURSIVE AltPoints(_, _, _)
AltPoints(alts, n, i) ==
  IF i > Len(alts) THEN 0
  ELSE 3 * B2N(EqualFold(alts[i], n)) + 5 * B2N(alts[i] = n)
       + AltPoints(alts, n, i + 1)

\* Lines 648-670.
RECURSIVE TokenPoints(_, _, _)
TokenPoints(v, nSlice, i) ==
  IF i > Len(nSlice) THEN 0
  ELSE LET ns == TrimSuffix(nSlice[i], <<chComma>>)
       IN 2 * B2N(Contains(toLower(v.City), toLower(ns)))
          + B2N(EqualFold(v.City, ns))
          + TokenPoints(v, nSlice, i + 1)

\* The points one visit of record v adds to bestMatchingKeys[currentKey].
Points(v, p) ==
  AbbrevPoints(v, p.abbrevSlice, 1)
  + 4 * B2N(p.nCo # << >> /\ p.nCo = v.Country)
  + 4 * B2N(p.nSt # << >> /\ p.nSt = v.Region)
  + (IF v.CityAlt # << >> THEN AltPoints(Fields(v.CityAlt), p.n, 1) ELSE 0)
  + 7 * B2N(EqualFold(p.n, v.City))
  + TokenPoints(v, p.nSlice, 1)

RECURSIVE SumPoints(_, _, _, _)
SumPoints(visits, p, key, i) ==
  IF i > Len(visits) THEN 0
  ELSE (IF visits[i].key = key THEN Points(visits[i].v, p) ELSE 0)
       + SumPoints(visits, p, key, i + 1)

\* bestMatchingKeys after the scan: a key exists once a rule has fired for it.
ScanScores(visits, p) ==
  LET total == [k \in {visits[i].key : i \in DOMAIN visits} |-> SumPoints(visits, p, k, 1)]
  IN [k \in {k \in DOMAIN total : total[k] > 0} |-> total[k]]

\* Lines 676-688, the keys enumerated in `order`.
RECURSIVE PopLoop(_, _, _, _, _, _)
PopLoop(c, scores, order, i, hp, hpk) ==
  IF i > Len(order) THEN [scores |-> scores, hpk |-> hpk]
  ELSE LET k == order[i]
           pop == At(c, k).Population
           s2 == IF pop >= 1000 THEN [scores EXCEPT ![k] = @ + 1] ELSE scores
       IN IF pop > hp
          THEN PopLoop(c, s2, order, i + 1, pop, k)
          ELSE PopLoop(c, s2, order, i + 1, hp, hpk)

\* Lines 689-692: bestMatchingKeys[hpk] = bestMatchingKeys[hpk] + 1.
MapAdd1(scores, k) ==
  [x \in DOMAIN scores \cup {k} |-> IF x = k
                                     THEN (IF k \in DOMAIN scores THEN scores[k] ELSE 0) + 1
                                     ELSE scores[x]]

PopulationBonus(c, scores, order) ==
  LET r == PopLoop(c, scores, order, 1, 0, 0)
  IN IF At(c, r.hpk).Population > 0 THEN MapAdd1(r.scores, r.hpk) ELSE r.scores

\* A winner loop without the population test of lines 704-708 (a variant the
\* tie-break is tried against).
RECURSIVE WinLoopNoTie(_, _, _, _, _, _)
WinLoopNoTie(c, scores, order, i, m, best) ==
  IF i > Len(order) THEN best
  ELSE LET k == order[i]
       IN IF scores[k] > m
          THEN WinLoopNoTie(c, scores, order, i + 1, scores[k], k)
          ELSE WinLoopNoTie(c, scores, order, i + 1, m, best)

\* Lines 695-709, the keys enumerated in `order`.
RECURSIVE WinLoop(_, _, _, _, _, _)
WinLoop(c, scores, order, i, m, best) ==
  IF i > Len(order) THEN best
  ELSE LET k == order[i]
           v == scores[k]
           m2 == IF v > m THEN v ELSE m
           b2 == IF v > m THEN k ELSE best
           b3 == IF v = m2 /\ At(c, k).Population > At(c, b2).Population THEN k ELSE b2
       IN WinLoop(c, scores, order, i + 1, m2, b3)

NoScores == [k \in {} |-> 0]

Panicked == [kind |-> "panic", via |-> "panic", city |-> EmptyCity, key |-> -1, scores |-> NoScores]

\* The first range whose slice expression g.c[rng.f:rng.t] panics, or
\* len(ranges) + 1 when there is none.
RECURSIVE FirstBadRange(_, _, _)
FirstBadRange(c, ranges, i) ==
  IF i > Len(ranges) \/ ~RangeOK(c, ranges[i]) THEN i
  ELSE FirstBadRange(c, ranges, i + 1)

\* The scan up to the population block: the shortcut's return, a panic of the
\* slice expression, or the scores.
GeocodeScan(c, p) ==
  LET bad == FirstBadRange(c, p.ranges, 1)
      visits == ScanAll(c, Take(p.ranges, bad - 1), 1)
      hits == SelectSeq(visits, LAMBDA e : IsExact(e.v, p))
  IN IF hits # << >>
     THEN [kind |-> "ok", via |-> "exact", city |-> hits[1].v, key |-> -1,
           scores |-> NoScores]
     ELSE IF bad <= Len(p.ranges) THEN Panicked
     ELSE [kind |-> "ok", via |-> "scan", city |-> EmptyCity, key |-> -1,
           scores |-> ScanScores(visits, p)]

\* The scores after the population block (skipped when a country was found).
GeocodeBonus(c, p, scores, order) ==
  IF p.nCo = << >> THEN PopulationBonus(c, scores, order) ELSE scores

\* A winner that is the empty record when no key holds points (a variant the
\* result of a call without points is tried against).
GeocodeWinnerOrEmpty(c, scores, order) ==
  LET best == WinLoop(c, scores, order, 1, 0, 0)
  IN [kind |-> "ok", via |-> "scored",
      city |-> IF DOMAIN scores = {} THEN EmptyCity ELSE At(c, best),
      key |-> best, scores |-> scores]

\* c = g.c[bestMatchingKey].
GeocodeWinner(c, scores, order) ==
  LET best == WinLoop(c, scores, order, 1, 0, 0)
  IN [kind |-> "ok", via |-> "scored", city |-> At(c, best), key |-> best,
      scores |-> scores]

\* Every result the second half can produce for the locals p, over the
\* enumeration orders of bestMatchingKeys in its two loops.
GeocodeFinish(c, p) ==
  IF p.empty
  THEN {[kind |-> "ok", via |-> "empty", city |-> EmptyCity, key |-> -1, scores |-> NoScores]}
  ELSE LET s == GeocodeScan(c, p)
       IN IF s.via # "scan" THEN {s}
          ELSE IF Len(c) = 0 \/ \E k \in DOMAIN s.scores : k >= Len(c) THEN {Panicked}
          ELSE UNION {LET s2 == GeocodeBonus(c, p, s.scores, o1)
                      IN {GeocodeWinner(c, s2, o2) : o2 \in Orders(DOMAIN s2)}
                      : o1 \in Orders(DOMAIN s.scores)}

\* Every result Geocode(q) can produce on the structures c, co, idx.
Geocode(c, co, idx, q) ==
  UNION {GeocodeFinish(c, GeocodeParse(c, co, idx, q, stOrder)) :
           stOrder \in Orders(UsSateCodes)}

(***************************************************************************)
(* loadDataSets (lines 220-460): the three feeds, the sort and the index.  *)
(* A feed row is given by its fields after the split: nf is the number of  *)
(* fields the line splits into, a text field is a string, and a numeric    *)
(* field is <<v>> for a numeral of value v and << >> for text that         *)
(* strconv cannot parse (which the code turns into 0).                     *)
(***************************************************************************)
\* strconv.Atoi / ParseFloat with the error dropped.
Num(f) == IF f = << >> THEN 0 ELSE f[1]

\* Lines 264-268 and 345-349.
StoredGeohash(lat, lng) ==
  LET gh == Encode(lat, lng) IN IF gh = OriginGeohash THEN << >> ELSE gh

\* Lines 256-285: the city a Geonames row appends, if any.
GeonamesCities(row) ==
  IF row.nf = 19
  THEN LET lat == Num(row.lat)
           lng == Num(row.lng)
           city == Trim(row.name, {chSpace})
       IN IF Len(city) > 0
          THEN <<GeobedCity(city, row.alt, row.country, row.region, lat, lng,
                            Num(row.pop), StoredGeohash(lat, lng))>>
          ELSE << >>
  ELSE << >>

RECURSIVE LoadGeonames(_, _)
LoadGeonames(rows, i) ==
  IF i > Len(rows) THEN << >>
  ELSE GeonamesCities(rows[i]) \o LoadGeonames(rows, i + 1)

\* Lines 317-326: the key of maxMindCityDedupeIdx.
DedupeKey(row) == row.country \o row.city \o row.pop

\* The rows left in maxMindCityDedupeIdx: of the 7-field rows with one key,
\* the last one read.
DedupedRows(rows) ==
  {i \in DOMAIN rows :
     /\ rows[i].nf = 7
     /\ ~\E j \in DOMAIN rows : j > i /\ rows[j].nf = 7 /\ DedupeKey(rows[j]) = DedupeKey(rows[i])}

\* "AccentCity", the third field of the feed's header row, and "0".
AccentCityHeader == <<65, 99, 99, 101, 110, 116, 67, 105, 116, 121>>

ZeroText == <<48>>

\* Lines 331-366: the city a kept MaxMind row appends, if any.  40 and 41
\* are the parentheses, 33 and 64 are "!" and "@".
MaxMindCities(row) ==
  IF row.country # << >> /\ row.country # ZeroText /\ row.accent # AccentCityHeader
  THEN LET lat == Num(row.lat)
           lng == Num(row.lng)
           cn == Trim(Trim(row.accent, {chSpace}), {40, chSpace, 41})
       IN IF Len(cn) > 0 /\ 33 \notin Range(cn) /\ 64 \notin Range(cn)
          THEN <<GeobedCity(cn, << >>, toUpper(row.country), row.region, lat, lng,
                            Num(row.pop), StoredGeohash(lat, lng))>>
          ELSE << >>
  ELSE << >>

RECURSIVE LoadMaxMind(_, _, _)
LoadMaxMind(rows, order, i) ==
  IF i > Len(order) THEN << >>
  ELSE MaxMindCities(rows[order[i]]) \o LoadMaxMind(rows, order, i + 1)

\* Line 388, string(t[0]), on an empty line: index out of range, the load
\* panics.
EmptyLine(row) == row.empty

\* Lines 385-424: the country a countryInfo row appends, if any.
CountryRows(row) ==
  IF ~row.comment /\ row.nf = 19 /\ row.iso # << >> /\ row.iso # ZeroText
  THEN <<CountryInfo(row.name, row.iso)>> ELSE << >>

RECURSIVE LoadCountries(_, _)
LoadCountries(rows, i) ==
  IF i > Len(rows) THEN << >>
  ELSE CountryRows(rows[i]) \o LoadCountries(rows, i + 1)

\* sort.Sort(g.c): ascending by CityLower.  The algorithm is a fixed one: the
\* same slice in the same order always gives the same result.  A slice as
\* short as the model's is sorted by insertion: each record moves left while
\* it is less than the record before it, so records with equal CityLower
\* keep the order they were appended in.
InsertSorted(sorted, v) ==
  LET n == Cardinality({i \in DOMAIN sorted : ~Less(<<v, sorted[i]>>, 1, 2)})
  IN Take(sorted, n) \o <<v>> \o Drop(sorted, n)

RECURSIVE InsertionSort(_, _, _)
InsertionSort(u, i, sorted) ==
  IF i > Len(u) THEN sorted
  ELSE InsertionSort(u, i + 1, InsertSorted(sorted, u[i]))

\* A sort that leaves the slice as it is (a variant the order of the store
\* is tried against).
Unsorted(u) == {u}

\* The slices sort.Sort(g.c) can leave.
SortOutcomes(u) == {InsertionSort(u, 1, << >>)}

\* Lines 436-444 and 449-457: record position k under the key ik.
IdxPut(idx, ik, k) ==
  IF ik \in DOMAIN idx
  THEN (IF idx[ik] < k THEN [idx EXCEPT ![ik] = k] ELSE idx)
  ELSE [x \in DOMAIN idx \cup {ik} |-> IF x = ik THEN k ELSE idx[x]]

\* Lines 432-459: the index of the sorted slice, k the 0-based position.
RECURSIVE BuildIdxFrom(_, _, _)
BuildIdxFrom(c, k, idx) ==
  IF k >= Len(c) THEN idx
  ELSE LET lower == At(c, k).CityLower
           i1 == IdxPut(idx, RuneString(lower[1]), k)
           i2 == IF Len(lower) >= 2 THEN IdxPut(i1, Take(lower, 2), k) ELSE i1
       IN BuildIdxFrom(c, k + 1, i2)

NoIdx == [k \in {} |-> 0]

BuildIdx(c) == BuildIdxFrom(c, 0, NoIdx)

\* g.c and g.co before the sort: what the instance already holds, then the
\* Geonames cities, then the MaxMind cities in the enumeration order of the
\* dedupe map.
Loaded(g, feed, mmOrder) ==
  [c |-> g.c \o LoadGeonames(feed.geonames, 1) \o LoadMaxMind(feed.maxmind, mmOrder, 1),
   co |-> g.co \o LoadCountries(feed.countries, 1)]

\* The process has died inside loadDataSets (a panic or log.Fatal): no
\* instance and no index are left.
LoadCrashed == [g |-> [c |-> << >>, co |-> << >>], idx |-> NoIdx, crashed |-> TRUE]

\* Every (instance, index) loadDataSets can leave when the three raw files
\* can be read: the process dies on an empty line of countryInfo.txt.
loadDataSets(g, feed) ==
  IF \E i \in DOMAIN feed.countries : EmptyLine(feed.countries[i])
  THEN {LoadCrashed}
  ELSE UNION {LET l == Loaded(g, feed, mmOrder)
              IN {[g |-> [c |-> sorted, co |-> l.co], idx |-> BuildIdx(sorted),
                   crashed |-> FALSE] :
                    sorted \in SortOutcomes(l.c)}
              : mmOrder \in Orders(DedupedRows(feed.maxmind))}

\* loadDataSets on the raw files as they are on disk.  cities1000.zip absent
\* or empty: zip.OpenReader fails, log.Fatal (line 226).  countryInfo.txt
\* absent: os.Open fails, log.Fatal (line 377); empty: no line, no country.
\* worldcitiespop.txt.gz absent or empty: gzip.NewReader fails and is only
\* logged (lines 300-304), and the scanner then reads from a nil reader: the
\* process panics.
loadDataSetsFrom(g, feed, raw) ==
  IF raw.cities # "whole" \/ raw.countries = "absent" \/ raw.maxmind # "whole"
  THEN {LoadCrashed}
  ELSE loadDataSets(g, IF raw.countries = "empty"
                       THEN [feed EXCEPT !.countries = << >>] ELSE feed)

(***************************************************************************)
(* The snapshot files (lines 801-914).  A gob stream is modelled by its    *)
(* framing: the element count, then one token per element; the decoder     *)
(* reads the count and that many tokens and never looks at what follows.   *)
(* A file is [exists, bytes].                                              *)
(***************************************************************************)
NoFile == [exists |-> FALSE, bytes |-> << >>]

GobEncode(list) == <<Len(list)>> \o list

\* A decoder that rejects a stream with bytes after its value (a variant the
\* round trip of the snapshots is tried against).
GobDecodeWhole(bytes) ==
  IF bytes = << >> \/ Len(bytes) # bytes[1] + 1
  THEN [err |-> TRUE, val |-> << >>]
  ELSE [err |-> FALSE, val |-> SubSeq(bytes, 2, bytes[1] + 1)]

\* [err, val]: err on an empty stream (EOF) or one shorter than its count
\* announces (unexpected EOF).
GobDecode(bytes) ==
  IF bytes = << >> \/ Len(bytes) < bytes[1] + 1
  THEN [err |-> TRUE, val |-> << >>]
  ELSE [err |-> FALSE, val |-> SubSeq(bytes, 2, bytes[1] + 1)]

\* The entries of a map as a list of <<key, value>>, in ascending key order
\* (the order gob writes them in is not modelled: decoding does not depend
\* on it).
RECURSIVE MapEntries(_, _)
MapEntries(idx, keys) ==
  IF keys = {} THEN << >>
  ELSE LET k == CHOOSE x \in keys : \A y \in keys : ~StrLess(y, x)
       IN <<<<k, idx[k]>>>> \o MapEntries(idx, keys \ {k})

MapOf(entries) ==
  [k \in {entries[i][1] : i \in DOMAIN entries} |->
     (CHOOSE e \in Range(entries) : e[1] = k)[2]]

\* os.OpenFile(path, O_CREATE|O_WRONLY) and Write: the bytes are written at
\* offset 0 of the file as it is; what the old file holds beyond them stays.
WriteFile(old, bytes) == [exists |-> TRUE, bytes |-> bytes \o Drop(old.bytes, Len(bytes))]

\* store(): the three files after it.
store(g, idx, files) ==
  [files EXCEPT !.c = WriteFile(@, GobEncode(g.c)),
                !.co = WriteFile(@, GobEncode(g.co)),
                !.idx = WriteFile(@, GobEncode(MapEntries(idx, DOMAIN idx)))]

\* loadGeobedCityData / loadGeobedCountryData: (nil, err) when the file
\* cannot be opened or decoded.
loadGeobedCityData(files) ==
  IF ~files.c.exists THEN [err |-> TRUE, val |-> << >>] ELSE GobDecode(files.c.bytes)

loadGeobedCountryData(files) ==
  IF ~files.co.exists THEN [err |-> TRUE, val |-> << >>] ELSE GobDecode(files.co.bytes)

\* loadGeobedCityNameIdx: the package variable is left alone when the file
\* cannot be opened, and replaced by a fresh map before decoding.
loadGeobedCityNameIdx(files, idx) ==
  IF ~files.idx.exists THEN [err |-> TRUE, val |-> idx]
  ELSE LET d == GobDecode(files.idx.bytes)
       IN IF d.err THEN [err |-> TRUE, val |-> NoIdx]
          ELSE [err |-> FALSE, val |-> MapOf(d.val)]

\* dataSetFiles, in the order of the slice (lines 35-40).
dataSetFiles == <<"cities", "countries", "maxmind">>

NoRaw == [f \in Range(dataSetFiles) |-> "absent"]

WholeRaw == [f \in Range(dataSetFiles) |-> "whole"]

\* What the network does to the fetches of one start: "up", every fetch
\* succeeds; "cut", http.Get succeeds and io.Copy fails; "down", http.Get
\* fails.
Networks == {"up", "cut", "down"}

\* Lines 191-215, from the i-th file on.  A file that exists is left alone.
\* An absent one is created (os.Create) and fetched: copied whole; or, when
\* the copy fails, removed again (line 206); or, when http.Get fails, r is
\* nil and `defer r.Body.Close()` (line 199) dereferences it: the process
\* panics and the file just created stays, empty.
RECURSIVE FetchFrom(_, _, _)
FetchFrom(raw, net, i) ==
  IF i > Len(dataSetFiles) THEN [raw |-> raw, crashed |-> FALSE]
  ELSE LET f == dataSetFiles[i]
       IN IF raw[f] # "absent" THEN FetchFrom(raw, net, i + 1)
          ELSE IF net = "up" THEN FetchFrom([raw EXCEPT ![f] = "whole"], net, i + 1)
          ELSE IF net = "cut" THEN FetchFrom(raw, net, i + 1)
          ELSE [raw |-> [raw EXCEPT ![f] = "empty"], crashed |-> TRUE]

\* downloadDataSets: the files after it, and whether the process died in it.
downloadDataSets(files, net) ==
  LET r == FetchFrom(files.raw, net, 1)
  IN [files |-> [files EXCEPT !.raw = r.raw], crashed |-> r.crashed]

\* downloadDataSets has a file to fetch.
Fetches(files) == \E f \in Range(dataSetFiles) : files.raw[f] = "absent"

\* A NewGeobed that never trusts the snapshots (a variant the short circuit
\* is tried against).
AlwaysRebuild(errC, errCo, errIdx, c) == TRUE

\* Line 179: err is the error of the last of the three loads.
NeedsRebuild(errC, errCo, errIdx, c) == errIdx \/ Len(c) = 0

\* NewGeobed under the network `net`: every state it can leave: the
\* instance, the package index, the files, whether the pipeline ran to its
\* end (rebuilt), whether the process died in it (crashed), and the network
\* its fetches met ("none" when it fetched nothing).
NewGeobed(files, idx, feed, net) ==
  LET rc == loadGeobedCityData(files)
      rco == loadGeobedCountryData(files)
      ridx == loadGeobedCityNameIdx(files, idx)
      g0 == [c |-> rc.val, co |-> rco.val]
      restored == <<~rc.err, ~rco.err, ~ridx.err>>
      d == downloadDataSets(files, net)
      met == IF Fetches(files) THEN net ELSE "none"
      died == [g |-> LoadCrashed.g, idx |-> NoIdx, rebuilt |-> FALSE, crashed |-> TRUE,
               restored |-> restored, files |-> d.files, net |-> met]
  IN IF NeedsRebuild(rc.err, rco.err, ridx.err, rc.val)
     THEN IF d.crashed THEN {died}
          ELSE {IF l.crashed THEN died
                ELSE [g |-> l.g, idx |-> l.idx, rebuilt |-> TRUE, crashed |-> FALSE,
                      restored |-> restored, files |-> store(l.g, l.idx, d.files),
                      net |-> met] :
                  l \in loadDataSetsFrom(g0, feed, d.files.raw)}
     ELSE {[g |-> g0, idx |-> ridx.val, rebuilt |-> FALSE, crashed |-> FALSE,
            restored |-> restored, files |-> files, net |-> "none"]}

(***************************************************************************)
(* The data of the model: points, feed rows, feeds, queries.               *)
(***************************************************************************)
S1(a) == <<a>>
S2(a, b) == <<a, b>>

\* Points, in the fixed-point units of Encode.  Against PtQ, the geohash of
\* PtNear shares 11 digits, PtMid 7, PtCell 2, PtOut 1 and PtFar none.
PtOrigin == [lat |-> 0, lng |-> 0]
PtQ == [lat |-> 180355073, lng |-> -291504127]
PtNear == [lat |-> 180355074, lng |-> -291504127]
PtMid == [lat |-> 180359169, lng |-> -291504127]
PtCell == [lat |-> 184549377, lng |-> -291504127]
PtOut == [lat |-> 247463937, lng |-> -291504127]
PtFar == [lat |-> -180355073, lng |-> 291504127]

GeoRow(name, alt, country, region, pt, pop) ==
  [nf |-> 19, name |-> name, alt |-> alt, country |-> country, region |-> region,
   lat |-> <<pt.lat>>, lng |-> <<pt.lng>>, pop |-> <<pop>>]

MaxMindRow(country, city, accent, region, pop, pt) ==
  [nf |-> 7, country |-> country, city |-> city, accent |-> accent, region |-> region,
   pop |-> <<pop>>, lat |-> <<pt.lat>>, lng |-> <<pt.lng>>]

CountryRow(iso, name) ==
  [comment |-> FALSE, empty |-> FALSE, nf |-> 19, iso |-> iso, name |-> name]

CommentRow == [comment |-> TRUE, empty |-> FALSE, nf |-> 1, iso |-> << >>, name |-> << >>]

\* An empty line of countryInfo.txt.
EmptyRow == [comment |-> FALSE, empty |-> TRUE, nf |-> 1, iso |-> << >>, name |-> << >>]

StMN == S2(Ch.M, Ch.N)
StNM == S2(Ch.N, Ch.M)

RowM == GeoRow(S1(Ch.m), << >>, StNM, StNM, PtMid, 500)
RowN == GeoRow(S1(Ch.n), << >>, StMN, StMN, PtMid, 2000)
RowN2 == GeoRow(S1(Ch.n), << >>, StNM, StNM, PtCell, 500)
RowOut == GeoRow(S2(Ch.n, Ch.n), S1(Ch.N), StMN, StNM, PtOut, 3000)
\* Latitude and longitude that do not parse: the geohash is cleared.
RowNoGeo == [GeoRow(S2(Ch.N, Ch.m), <<Ch.n, chSpace, Ch.m>>, StMN, StNM, PtOrigin, 0)
               EXCEPT !.lat = << >>, !.lng = << >>]
RowShort == [GeoRow(S1(Ch.m), << >>, StMN, StMN, PtFar, 9000) EXCEPT !.nf = 5]
RowNoName == GeoRow(S1(chSpace), << >>, StMN, StMN, PtFar, 9000)

MmRow1 == MaxMindRow(toLower(StMN), toLower(StMN), S2(Ch.M, Ch.n), StNM, 100, PtNear)
MmRow2 == MaxMindRow(toLower(StMN), toLower(StMN), S2(Ch.M, Ch.n), StMN, 100, PtNear)

Feeds ==
  {[geonames |-> <<RowN, RowShort, RowM>>, maxmind |-> << >>,
    countries |-> <<CommentRow, CountryRow(StMN, S2(Ch.M, Ch.n))>>],
   [geonames |-> <<RowN, RowNoGeo, RowM>>, maxmind |-> <<MmRow1, MmRow2>>,
    countries |-> <<CountryRow(StMN, S2(Ch.M, Ch.n)), CountryRow(StNM, S2(Ch.N, Ch.m))>>],
   [geonames |-> <<RowOut, RowN, RowNoName, RowN2>>, maxmind |-> << >>,
    countries |-> <<CountryRow(StNM, S2(Ch.N, Ch.m))>>]}

\* Feeds whose cities have no population figure (as most MaxMind rows).  The
\* first gives the store ["n" (MN), "n" (NM), "nn"]; the second has two
\* MaxMind rows for two cities named "N", in the countries mn and nm, and
\* gives ["m", "N", "N"]; the third has a city whose name begins with a
\* letter outside ASCII, "\u00DCn" (the bytes C3 9C 6E), and gives
\* ["m", "mn", "\u00DCn"].
RowN0 == GeoRow(S1(Ch.n), << >>, StMN, StMN, PtMid, 0)
RowN20 == GeoRow(S1(Ch.n), << >>, StNM, StNM, PtCell, 0)
RowOut0 == GeoRow(S2(Ch.n, Ch.n), << >>, StMN, StNM, PtOut, 0)

MmRowA == MaxMindRow(toLower(StMN), S1(Ch.n), S1(Ch.N), StMN, 0, PtNear)
MmRowB == MaxMindRow(toLower(StNM), S1(Ch.n), S1(Ch.N), StNM, 0, PtMid)

RowUn == GeoRow(<<195, 156, Ch.n>>, << >>, StMN, StMN, PtFar, 700)
RowMn == GeoRow(S2(Ch.m, Ch.n), << >>, StMN, StNM, PtCell, 0)

TieFeeds ==
  {[geonames |-> <<RowOut0, RowN0, RowN20>>, maxmind |-> << >>,
    countries |-> <<CountryRow(StNM, S2(Ch.N, Ch.m))>>],
   [geonames |-> <<RowM>>, maxmind |-> <<MmRowA, MmRowB>>,
    countries |-> <<CountryRow(StNM, S2(Ch.N, Ch.m))>>],
   [geonames |-> <<RowUn, RowMn, RowM>>, maxmind |-> << >>,
    countries |-> <<CountryRow(StMN, S2(Ch.M, Ch.n))>>]}

\* Feeds with rows that are not well formed: a Geonames row of too few
\* fields and one whose numbers do not parse, a MaxMind row of too few
\* fields, and in the second an empty line in countryInfo.txt.
MmRowShort == [MaxMindRow(toLower(StMN), S1(Ch.m), S1(Ch.M), StMN, 100, PtNear) EXCEPT !.nf = 3]

MalformedFeeds ==
  {[geonames |-> <<RowShort, RowNoGeo, RowN>>, maxmind |-> <<MmRowShort, MmRow1>>,
    countries |-> <<CommentRow, [CountryRow(StMN, S2(Ch.M, Ch.n)) EXCEPT !.nf = 4],
                    CountryRow(StNM, S2(Ch.N, Ch.m))>>],
   [geonames |-> <<RowN, RowM>>, maxmind |-> << >>,
    countries |-> <<CountryRow(StMN, S2(Ch.M, Ch.n)), EmptyRow,
                    CountryRow(StNM, S2(Ch.N, Ch.m))>>]}

\* A feed whose MaxMind rows hold two rows of one (country, city,
\* population), the second and third, and two rows of different countries and
\* cities whose fields concatenate to the same text, the first and fourth:
\* "m" + "nn" and "mn" + "n".
MmRowC == MaxMindRow(S1(Ch.m), S2(Ch.n, Ch.n), S2(Ch.N, Ch.n), StMN, 100, PtCell)
MmRowD == MaxMindRow(toLower(StMN), S1(Ch.n), S1(Ch.N), StNM, 100, PtMid)

DuplicateFeeds ==
  {[geonames |-> <<RowM>>, maxmind |-> <<MmRowC, MmRow1, MmRow2, MmRowD>>,
    countries |-> <<CountryRow(StMN, S2(Ch.M, Ch.n))>>]}

Alphabet == {Ch.M, Ch.N, Ch.m, Ch.n, chSpace, chComma}

\* The longest query of GeocodeQueries.
MaxQueryLen == 4

RECURSIVE StringsUpTo(_)
StringsUpTo(len) ==
  IF len = 0 THEN {<< >>}
  ELSE LET shorter == StringsUpTo(len - 1)
       IN shorter \cup {Append(q, a) : q \in {x \in shorter : Len(x) = len - 1}, a \in Alphabet}

\* Longer queries, tried besides the short ones: "MN NM" and "n, MN".
LongQueries ==
  {<<Ch.M, Ch.N, chSpace, Ch.N, Ch.M>>, <<Ch.n, chComma, chSpace, Ch.M, Ch.N>>}

GeocodeQueries == StringsUpTo(MaxQueryLen) \cup LongQueries

\* The queries of the runs that also start and stop the process:
\* "", " ", "n", "M", "n MN", "n, nm", "Mn n".
SampleQueries ==
  {<< >>, <<chSpace>>, <<Ch.n>>, <<Ch.M>>, <<Ch.n, chSpace, Ch.M, Ch.N>>,
   <<Ch.n, chComma, chSpace, Ch.n, Ch.m>>, <<Ch.M, Ch.n, chSpace, Ch.n>>}

QueryPoints == {PtOrigin, PtQ, PtFar}

(***************************************************************************)
(* The state.                                                              *)
(***************************************************************************)
VARIABLES
  feed,         \* the raw feeds this machine downloads and parses
  files,        \* ./geobed-data: raw feeds present, and the three snapshots
  proc,         \* "down" or "up": whether the process runs
  g,            \* the GeoBed instance the process holds (g.c, g.co)
  cityNameIdx,  \* the package-level index
  boot,         \* history: what the last NewGeobed did
  call          \* per caller, the Geocode / ReverseGeocode call in flight

vars == <<feed, files, proc, g, cityNameIdx, boot, call>>

Threads == {1, 2}

\* The NewGeobed calls of one run of the model.
MaxStarts == 3

NoInstance == [c |-> << >>, co |-> << >>]

NoParse ==
  [empty |-> TRUE, n |-> << >>, nCo |-> << >>, nSt |-> << >>,
   abbrevSlice |-> << >>, nSlice |-> << >>, ranges |-> << >>]

NoRet == [kind |-> "none", via |-> "none", city |-> EmptyCity, key |-> -1,
          scores |-> NoScores, scanned |-> 0]

Idle == [pc |-> "idle", op |-> "none", q |-> << >>, pt |-> PtOrigin, p |-> NoParse,
         ret |-> NoRet]

NoBoot == [n |-> 0, rebuilt |-> FALSE, crashed |-> FALSE, net |-> "none", prior |-> FALSE,
           restored |-> <<FALSE, FALSE, FALSE>>, g |-> NoInstance, idx |-> NoIdx,
           before |-> [c |-> NoFile, co |-> NoFile, idx |-> NoFile, raw |-> NoRaw]]

\* A snapshot file as an earlier run may have left it: absent, cut short,
\* or whole.
FileStates(bytes) ==
  {NoFile, [exists |-> TRUE, bytes |-> Take(bytes, Len(bytes) - 1)],
   [exists |-> TRUE, bytes |-> bytes]}

NoFiles == [c |-> NoFile, co |-> NoFile, idx |-> NoFile, raw |-> NoRaw]

\* The directory before the first start: each snapshot of some earlier
\* build, absent, cut short or whole.
InitialFiles ==
  UNION {UNION {LET whole == store(b.g, b.idx, NoFiles)
                IN {[c |-> fc, co |-> fco, idx |-> fi,
                     raw |-> IF fc.exists \/ fco.exists \/ fi.exists
                             THEN WholeRaw ELSE NoRaw] :
                      fc \in FileStates(whole.c.bytes),
                      fco \in FileStates(whole.co.bytes),
                      fi \in FileStates(whole.idx.bytes)}
                : b \in loadDataSets(NoInstance, old)}
         : old \in Feeds}

Init ==
  /\ feed \in Feeds
  /\ files \in InitialFiles
  /\ proc = "down"
  /\ g = NoInstance
  /\ cityNameIdx = NoIdx
  /\ boot = NoBoot
  /\ call = [t \in Threads |-> Idle]

Quiet == \A t \in Threads : call[t].pc = "idle"

(***************************************************************************)
(* Actions.                                                                *)
(***************************************************************************)
\* g = NewGeobed(), at process start or again in a running process, under
\* the network `net`; no query is in flight while it runs.  When the process
\* dies in it, its memory is gone.
StartGeobed(net) ==
  /\ Quiet
  /\ boot.n < MaxStarts
  /\ \E r \in NewGeobed(files, cityNameIdx, feed, net) :
       /\ g' = r.g
       /\ cityNameIdx' = r.idx
       /\ files' = r.files
       /\ boot' = [n |-> boot.n + 1, rebuilt |-> r.rebuilt, crashed |-> r.crashed,
                   net |-> r.net, prior |-> boot.rebuilt,
                   restored |-> r.restored, g |-> r.g, idx |-> r.idx, before |-> files]
       /\ proc' = IF r.crashed THEN "down" ELSE "up"
  /\ UNCHANGED <<feed, call>>

\* The process ends: its memory is gone, the files stay.
Exit ==
  /\ proc = "up"
  /\ Quiet
  /\ proc' = "down"
  /\ g' = NoInstance
  /\ cityNameIdx' = NoIdx
  /\ UNCHANGED <<feed, files, boot, call>>

\* A query step that clears the package index (a variant the immutability
\* of the structures is tried against).
QueryFrameResetIdx ==
  /\ cityNameIdx' = NoIdx
  /\ UNCHANGED <<feed, files, proc, g, boot>>

\* What a Geocode or ReverseGeocode step does to the structures: nothing.
QueryFrame == UNCHANGED <<feed, files, proc, g, cityNameIdx, boot>>

\* g.Geocode(q), lines 463-537: caller t has parsed q and resolved its ranges.
GeocodeBegin(t, q) ==
  /\ proc \in {"up", "loading"}
  /\ call[t].pc = "idle"
  /\ \E stOrder \in Orders(UsSateCodes) :
       call' = [call EXCEPT ![t] =
                  [Idle EXCEPT !.pc = "scan", !.op = "Geocode", !.q = q,
                               !.p = GeocodeParse(g.c, g.co, cityNameIdx, q, stOrder)]]
  /\ QueryFrame

\* g.Geocode(q), lines 539-722: the scan, the scoring and the return.
GeocodeEnd(t) ==
  /\ call[t].pc = "scan"
  /\ \E r \in GeocodeFinish(g.c, call[t].p) :
       call' = [call EXCEPT ![t].pc = "done",
                            ![t].ret = [kind |-> r.kind, via |-> r.via, city |-> r.city,
                                        key |-> r.key, scores |-> r.scores, scanned |-> 0]]
  /\ QueryFrame

\* g.ReverseGeocode(lat, lng).
ReverseGeocodeCall(t, pt) ==
  /\ proc = "up"
  /\ call[t].pc = "idle"
  /\ LET r == ReverseGeocode(g.c, pt.lat, pt.lng)
     IN call' = [call EXCEPT ![t] =
                   [Idle EXCEPT !.pc = "done", !.op = "ReverseGeocode", !.pt = pt,
                                !.ret = [kind |-> r.kind, via |-> "reverse", city |-> r.city,
                                         key |-> -1, scores |-> NoScores,
                                         scanned |-> r.scanned]]]
  /\ QueryFrame

\* The caller has its result (or the panic has unwound) and is free again.
Return(t) ==
  /\ call[t].pc = "done"
  /\ call' = [call EXCEPT ![t] = Idle]
  /\ QueryFrame

(***************************************************************************)
(* Spec: process starts and exits, one caller, the sample queries.         *)
(***************************************************************************)
Next ==
  \/ \E net \in Networks : StartGeobed(net)
  \/ Exit
  \/ \E q \in SampleQueries : GeocodeBegin(1, q)
  \/ GeocodeEnd(1)
  \/ \E pt \in QueryPoints : ReverseGeocodeCall(1, pt)
  \/ Return(1)

Spec == Init /\ [][Next]_vars

(***************************************************************************)
(* SpecInstances: a process that holds a built instance g and calls        *)
(* NewGeobed again while g is in use.  `g` and `boot` stay those of the    *)
(* first instance; of the second call the model keeps what it does to the  *)
(* package variable cityNameIdx.  proc = "loading" while the second call   *)
(* runs.  The snapshots on disk are whole, so the second call restores.    *)
(***************************************************************************)
\* The map idx with the keys `keys` only.
Restrict(idx, keys) == [k \in keys |-> idx[k]]

\* Another process of the program, run on other raw feeds in the same data
\* directory, has rebuilt and stored (lines 180-182 there).
SnapshotsReplaced ==
  /\ proc = "up"
  /\ loadGeobedCityData(files).val = boot.g.c
  /\ \E other \in Feeds \ {feed} : \E l \in loadDataSets(NoInstance, other) :
       files' = store(l.g, l.idx, files)
  /\ UNCHANGED <<feed, proc, g, cityNameIdx, boot, call>>

\* The second NewGeobed runs up to the decoding of the index:
\* loadGeobedCityNameIdx has replaced the package variable by a fresh map
\* (line 908) and the decoder has put some of the entries into it.
NewGeobedBegin ==
  /\ proc = "up"
  /\ \E r \in NewGeobed(files, cityNameIdx, feed, "up") :
       /\ ~r.rebuilt /\ ~r.crashed
       /\ \E keys \in (SUBSET DOMAIN r.idx) \ {DOMAIN r.idx} :
            cityNameIdx' = Restrict(r.idx, keys)
  /\ proc' = "loading"
  /\ UNCHANGED <<feed, files, g, boot, call>>

\* The second NewGeobed returns: the package variable holds the index it
\* restored.
NewGeobedEnd ==
  /\ proc = "loading"
  /\ \E r \in NewGeobed(files, cityNameIdx, feed, "up") :
       /\ ~r.rebuilt /\ ~r.crashed
       /\ cityNameIdx' = r.idx
  /\ proc' = "up"
  /\ UNCHANGED <<feed, files, g, boot, call>>

\* A Geocode call reads the map while the decoder writes it: the runtime
\* can stop the process (fatal error: concurrent map read and map write).
GeocodeRace(t) ==
  /\ proc = "loading"
  /\ call[t].pc = "idle"
  /\ proc' = "down"
  /\ g' = NoInstance
  /\ cityNameIdx' = NoIdx
  /\ call' = [u \in Threads |-> Idle]
  /\ UNCHANGED <<feed, files, boot>>

NextInstances ==
  \/ SnapshotsReplaced
  \/ NewGeobedBegin
  \/ NewGeobedEnd
  \/ GeocodeRace(1)
  \/ \E q \in SampleQueries : GeocodeBegin(1, q)
  \/ GeocodeEnd(1)
  \/ Return(1)

(***************************************************************************)
(* SpecLoad: the starts of a machine with an empty data directory, over    *)
(* the feeds of Feeds, feeds with malformed rows and a feed with duplicate *)
(* rows, and the sample queries.                                           *)
(***************************************************************************)
InitLoad ==
  /\ feed \in Feeds \cup MalformedFeeds \cup DuplicateFeeds
  /\ files = NoFiles
  /\ proc = "down"
  /\ g = NoInstance
  /\ cityNameIdx = NoIdx
  /\ boot = NoBoot
  /\ call = [t \in Threads |-> Idle]

SpecLoad == InitLoad /\ [][Next]_vars

(***************************************************************************)
(* InitBuilt: an instance built from the raw feeds in an empty directory,  *)
(* then queries only.  SpecGeocode: one caller, every query of             *)
(* GeocodeQueries.  SpecConcurrent: two callers, the sample queries.       *)
(***************************************************************************)
Built(feeds) ==
  /\ feed \in feeds
  /\ \E r \in NewGeobed(NoFiles, NoIdx, feed, "up") :
       /\ g = r.g
       /\ cityNameIdx = r.idx
       /\ files = r.files
       /\ boot = [n |-> 1, rebuilt |-> r.rebuilt, crashed |-> r.crashed, net |-> r.net,
                  prior |-> FALSE,
                  restored |-> r.restored, g |-> r.g, idx |-> r.idx, before |-> NoFiles]
  /\ proc = "up"
  /\ call = [t \in Threads |-> Idle]

InitBuilt == Built(Feeds)

\* The stores of the Geocode runs: those of Feeds and those of TieFeeds.
InitGeocode == Built(Feeds \cup TieFeeds)

NextGeocode ==
  \/ \E q \in GeocodeQueries : GeocodeBegin(1, q)
  \/ GeocodeEnd(1)
  \/ Return(1)

SpecGeocode == InitGeocode /\ [][NextGeocode]_vars

NextConcurrent ==
  \/ \E t \in Threads : \E q \in SampleQueries : GeocodeBegin(t, q)
  \/ \E t \in Threads : GeocodeEnd(t)
  \/ \E t \in Threads : \E pt \in QueryPoints : ReverseGeocodeCall(t, pt)
  \/ \E t \in Threads : Return(t)

SpecConcurrent == InitBuilt /\ [][NextConcurrent]_vars

\* A built instance and a second NewGeobed in its process.
SpecInstances == InitBuilt /\ [][NextInstances]_vars

(***************************************************************************)
(* Properties.                                                             *)
(***************************************************************************)
GeocodeDone(t) == call[t].pc = "done" /\ call[t].op = "Geocode"

ReverseDone(t) == call[t].pc = "done" /\ call[t].op = "ReverseGeocode"

\* The three ways of writing a city name with a state code.
NameStateForms(name, st) ==
  {name \o <<chComma, chSpace>> \o st, name \o <<chSpace>> \o st,
   st \o <<chSpace>> \o name}

\* The length of the longest common prefix of two strings.
SharedRun(a, b) ==
  CHOOSE n \in 0..Min2(Len(a), Len(b)) :
    /\ Take(a, n) = Take(b, n)
    /\ n = Min2(Len(a), Len(b)) \/ a[n + 1] # b[n + 1]

\* The positions of c whose geohash shares its first two characters with gh.
Near(c, gh) == {i \in DOMAIN c : SharedRun(c[i].Geohash, gh) >= 2}

\* Record `city` is a best record of c for gh: among the near ones it has a
\* longest shared run and, among those, a highest population; the empty
\* record when no record is near.
BestNear(c, gh, city) ==
  IF Near(c, gh) = {} THEN city = EmptyCity
  ELSE \E i \in Near(c, gh) :
         /\ city = c[i]
         /\ \A j \in Near(c, gh) :
              /\ SharedRun(c[j].Geohash, gh) <= SharedRun(c[i].Geohash, gh)
              /\ SharedRun(c[j].Geohash, gh) = SharedRun(c[i].Geohash, gh)
                   => c[j].Population <= c[i].Population

QueryGeohash(t) == Encode(call[t].pt.lat, call[t].pt.lng)

\* C1: for every built store and index and every non-empty query that is
\* exactly the display name of a stored city, Geocode returns a record whose
\* name equals the query case-insensitively.
GeocodeFindsExactName ==
  (GeocodeDone(1) /\ call[1].q # << >> /\ \E i \in DOMAIN g.c : g.c[i].City = call[1].q)
    => (call[1].ret.kind = "ok" /\ EqualFold(call[1].ret.city.City, call[1].q))

\* C2: for a query "Name, ST", "Name ST" or "ST Name" (any letter case), when
\* the store holds a record named Name with region code ST, Geocode returns a
\* record with that name and region ST.
GeocodeFindsNameAndState ==
  \A i \in DOMAIN g.c : \A st \in UsSateCodes :
    (/\ GeocodeDone(1)
     /\ g.c[i].Region = st
     /\ \E f \in NameStateForms(g.c[i].City, st) : EqualFold(call[1].q, f))
    => (/\ call[1].ret.kind = "ok"
        /\ EqualFold(call[1].ret.city.City, g.c[i].City)
        /\ call[1].ret.city.Region = st)

\* C3: Geocode of an empty or blank query returns the empty city (empty name,
\* population zero) at once: no range is resolved and no score is computed,
\* whatever the store holds.
GeocodeBlankQuery ==
  (call[1].op = "Geocode" /\ Range(call[1].q) \subseteq {chSpace})
    => /\ call[1].pc = "scan" => (call[1].p.empty /\ call[1].p.ranges = << >>)
       /\ call[1].pc = "done" =>
            /\ call[1].ret.kind = "ok"
            /\ call[1].ret.via = "empty"
            /\ call[1].ret.city = EmptyCity
            /\ call[1].ret.city.City = << >> /\ call[1].ret.city.Population = 0
            /\ call[1].ret.scores = NoScores

\* A blank query has been answered on a store that holds cities.
GeocodeBlankQueryWitness ==
  /\ GeocodeDone(1)
  /\ call[1].q = <<chSpace>>
  /\ call[1].ret.city = EmptyCity
  /\ Len(g.c) > 0

\* C4: ReverseGeocode of a point with a non-degenerate geohash returns a
\* record that, among the records sharing the first two characters with the
\* point's geohash, has the longest shared run and among those the highest
\* population; the empty city when no record shares the first two characters.
ReverseGeocodeSelectsBest ==
  \A t \in Threads :
    (ReverseDone(t) /\ QueryGeohash(t) # OriginGeohash)
      => (call[t].ret.kind = "ok" /\ BestNear(g.c, QueryGeohash(t), call[t].ret.city))

\* The selection rule of C4 on the calls that return: every ReverseGeocode
\* that returns has returned a best record.
ReverseGeocodeSelectsBestOnReturn ==
  \A t \in Threads :
    (ReverseDone(t) /\ QueryGeohash(t) # OriginGeohash /\ call[t].ret.kind = "ok")
      => BestNear(g.c, QueryGeohash(t), call[t].ret.city)

\* C5: ReverseGeocode of a point whose geohash is the degenerate one of the
\* origin returns the empty city at once, without examining any record.
ReverseGeocodeOriginSentinel ==
  \A t \in Threads :
    (ReverseDone(t) /\ QueryGeohash(t) = OriginGeohash)
      => (/\ call[t].ret.kind = "ok"
          /\ call[t].ret.city = EmptyCity
          /\ call[t].ret.scanned = 0)

\* The origin has been looked up on a store that holds cities, one of them
\* without a geohash.
ReverseGeocodeOriginWitness ==
  \E t \in Threads :
    /\ ReverseDone(t)
    /\ call[t].pt = PtOrigin
    /\ call[t].ret.city = EmptyCity
    /\ \E i \in DOMAIN g.c : g.c[i].Geohash = << >>

\* C6: on a store that holds records whose geohash was cleared, ReverseGeocode
\* of a point with a non-degenerate geohash completes without failure and
\* never returns one of those records.
ReverseGeocodeSkipsEmptyGeohash ==
  \A t \in Threads :
    (/\ ReverseDone(t)
     /\ QueryGeohash(t) # OriginGeohash
     /\ \E i \in DOMAIN g.c : g.c[i].Geohash = << >>)
    => (/\ call[t].ret.kind = "ok"
        /\ \A i \in DOMAIN g.c : g.c[i].Geohash = << >> => call[t].ret.city # g.c[i])

\* C7: when NewGeobed fails to restore any one of the three snapshots, or
\* restores an empty city store, it runs the pipeline, and the instance it
\* returns has cities, countries and an index.
AnyFailedRestoreRebuilds ==
  (boot.n > 0 /\ (FALSE \in Range(boot.restored)
                    \/ Len(loadGeobedCityData(boot.before).val) = 0))
    => (/\ boot.rebuilt
        /\ Len(boot.g.c) > 0
        /\ Len(boot.g.co) > 0
        /\ DOMAIN boot.idx # {})

\* C8: when the three snapshots restore and the restored city store is not
\* empty, NewGeobed runs no download, parse, sort, index build or store: the
\* files are as they were and the instance and the index are the restored ones.
ValidSnapshotShortCircuits ==
  (/\ boot.n > 0
   /\ boot.restored = <<TRUE, TRUE, TRUE>>
   /\ Len(loadGeobedCityData(boot.before).val) > 0)
  => (/\ ~boot.rebuilt
      /\ files = boot.before
      /\ boot.g = [c |-> loadGeobedCityData(boot.before).val,
                   co |-> loadGeobedCountryData(boot.before).val]
      /\ boot.idx = MapOf(GobDecode(boot.before.idx.bytes).val)
      /\ proc = "up" => (g = boot.g /\ cityNameIdx = boot.idx))

\* A start has restored the three snapshots of a build of other feeds than
\* the ones this machine would parse.
ValidSnapshotShortCircuitsWitness ==
  /\ boot.n > 0
  /\ boot.restored = <<TRUE, TRUE, TRUE>>
  /\ ~boot.rebuilt
  /\ proc = "up"
  /\ Len(g.c) > 0
  /\ g \notin {l.g : l \in loadDataSets(NoInstance, feed)}

\* C9: the start that follows a start that rebuilt and stored the structures
\* restores the three of them equal to what was built, and does not rebuild
\* or write; whatever the files held before the rebuild.
SnapshotRoundTrip ==
  [][(boot.n > 0 /\ boot.rebuilt /\ boot'.n = boot.n + 1)
       => (/\ ~boot'.rebuilt
           /\ boot'.restored = <<TRUE, TRUE, TRUE>>
           /\ g' = boot.g
           /\ cityNameIdx' = boot.idx
           /\ files' = files)]_vars

\* A start has restored what the start before it built and wrote over a
\* longer file of an earlier build.
SnapshotRoundTripWitness ==
  /\ boot.n >= 2
  /\ boot.prior
  /\ ~boot.rebuilt
  /\ proc = "up"
  /\ g = boot.g
  /\ Len(files.c.bytes) > Len(GobEncode(g.c))

\* The fields of a call's result that Geocode itself returns.
GeocodeRet(t) ==
  [kind |-> call[t].ret.kind, via |-> call[t].ret.via, city |-> call[t].ret.city,
   key |-> call[t].ret.key, scores |-> call[t].ret.scores]

\* C10: in every interleaving of Geocode and ReverseGeocode calls on one built
\* instance, the city store, the country table and the index stay what the
\* construction left, and every call returns a result it can return when it
\* runs alone on them.
QueriesLeaveStructures ==
  /\ g = boot.g
  /\ cityNameIdx = boot.idx
  /\ \A t \in Threads :
       GeocodeDone(t) => GeocodeRet(t) \in Geocode(boot.g.c, boot.g.co, boot.idx, call[t].q)
  /\ \A t \in Threads :
       ReverseDone(t) =>
         LET r == ReverseGeocode(boot.g.c, call[t].pt.lat, call[t].pt.lng)
         IN call[t].ret.kind = r.kind /\ call[t].ret.city = r.city

\* A Geocode call has returned while the other caller's Geocode call,
\* begun meanwhile, is between its two halves.
QueriesLeaveStructuresWitness ==
  /\ GeocodeDone(1)
  /\ call[1].ret.via = "scored"
  /\ call[2].pc = "scan"
  /\ call[2].q # call[1].q

\* C11: two Geocode calls with the same query on the same structures return
\* the same record, whatever the order in which the state-code table and the
\* score table are enumerated: the record a call has returned is the only one
\* the call can return.
GeocodeDeterministic ==
  GeocodeDone(1) =>
    \A r \in Geocode(g.c, g.co, cityNameIdx, call[1].q) :
      r.kind = call[1].ret.kind /\ r.city = call[1].ret.city

\* C12: the record Geocode returns from the score table is the one at a
\* position with the highest accumulated score, and no position with that
\* score has a record with a greater population.
GeocodeReturnsTopScore ==
  (GeocodeDone(1) /\ call[1].ret.via = "scored" /\ DOMAIN call[1].ret.scores # {})
    => LET scores == call[1].ret.scores
           key == call[1].ret.key
       IN /\ key \in DOMAIN scores
          /\ call[1].ret.city = At(g.c, key)
          /\ \A k \in DOMAIN scores :
               /\ scores[k] <= scores[key]
               /\ scores[k] = scores[key]
                    => At(g.c, k).Population <= At(g.c, key).Population

\* Two positions hold the top score, their records have different
\* populations, and the call has returned.
GeocodeReturnsTopScoreWitness ==
  /\ GeocodeDone(1)
  /\ call[1].ret.via = "scored"
  /\ \E k \in DOMAIN call[1].ret.scores :
       /\ k # call[1].ret.key
       /\ call[1].ret.scores[k] = call[1].ret.scores[call[1].ret.key]
       /\ At(g.c, k).Population < At(g.c, call[1].ret.key).Population

\* A Geocode call of caller t is past the resolution of its ranges.
GeocodeParsed(t) == call[t].op = "Geocode" /\ call[t].pc \in {"scan", "done"}

\* C13: on every built store, every range resolved for a query token
\* satisfies 0 <= start <= end <= number of records, and the call reads no
\* position outside the store: it does not panic and the position it returns
\* is one of the store.
GeocodeRangesInBounds ==
  GeocodeParsed(1) =>
    /\ \A i \in DOMAIN call[1].p.ranges :
         /\ 0 <= call[1].p.ranges[i].f
         /\ call[1].p.ranges[i].f <= call[1].p.ranges[i].t
         /\ call[1].p.ranges[i].t <= Len(g.c)
    /\ call[1].pc = "done" =>
         /\ call[1].ret.kind = "ok"
         /\ \A k \in DOMAIN call[1].ret.scores : 0 <= k /\ k < Len(g.c)
         /\ call[1].ret.via = "scored" => (0 <= call[1].ret.key /\ call[1].ret.key < Len(g.c))

\* A call with two tokens has returned, one range ending at the index entry
\* of its letter and one at the default end.
GeocodeRangesInBoundsWitness ==
  /\ GeocodeDone(1)
  /\ call[1].ret.via = "scored"
  /\ \E i, j \in DOMAIN call[1].p.ranges :
       /\ call[1].p.ranges[i].t = Len(g.c) - 1
       /\ call[1].p.ranges[j].t < Len(g.c) - 1
       /\ call[1].p.ranges[j].f < call[1].p.ranges[j].t

\* C14: after a NewGeobed that ran the build step, the city store is sorted
\* ascending by case-folded name (no record is followed by one with a smaller
\* case-folded name) and every record has a non-empty display name.
BuiltStoreSorted ==
  (boot.n > 0 /\ boot.rebuilt) =>
    /\ \A i \in DOMAIN boot.g.c : \A j \in DOMAIN boot.g.c :
         i < j => ~StrLess(toLower(boot.g.c[j].City), toLower(boot.g.c[i].City))
    /\ \A i \in DOMAIN boot.g.c :
         /\ boot.g.c[i].City # << >>
         /\ boot.g.c[i].CityLower = toLower(boot.g.c[i].City)
    /\ proc = "up" => g = boot.g

\* A start has built the store from feeds whose first row is not the first
\* by name and which hold a row without a name.
BuiltStoreSortedWitness ==
  /\ boot.n > 0
  /\ boot.rebuilt
  /\ proc = "up"
  /\ Len(g.c) >= 3
  /\ \E i \in DOMAIN feed.geonames : Trim(feed.geonames[i].name, {chSpace}) = << >>
  /\ toLower(Trim(feed.geonames[1].name, {chSpace})) # g.c[1].CityLower

\* C15: building the city store twice from the same raw feeds gives the same
\* sequence of records, records of equal case-folded name in the same order:
\* the store a build has left in an empty directory is the only one the
\* build can leave for these feeds.
RebuildDeterministic ==
  (boot.n > 0 /\ boot.rebuilt /\ boot.before = NoFiles)
    => \A l \in loadDataSets(NoInstance, feed) : l.g.c = boot.g.c

\* The tokens of caller t's query that resolve to a range, in order: the
\* pieces of nSlice without one trailing comma, the empty ones left out.
RangeTokens(t) ==
  SelectSeq([i \in DOMAIN call[t].p.nSlice |-> TrimSuffix(call[t].p.nSlice[i], <<chComma>>)],
            LAMBDA ns : ns # << >>)

\* The index key of a token: its first character, in lower case.
FirstChar(ns) == toLower(RuneString(ns[1]))

\* C16: when the index has no entry for the first character of a query
\* token, the end of the token's range is the length of the city store, so
\* that the range runs through the last record.
GeocodeDefaultEndIsLength ==
  GeocodeParsed(1) =>
    \A i \in DOMAIN RangeTokens(1) :
      FirstChar(RangeTokens(1)[i]) \notin DOMAIN cityNameIdx
        => call[1].p.ranges[i].t = Len(g.c)

\* C17: the records enumerated for a query token include every record whose
\* case-folded name begins with the token's first character: each such
\* position k lies in the token's range, start <= k < end.
GeocodeRangeCoversLetter ==
  GeocodeParsed(1) =>
    \A i \in DOMAIN RangeTokens(1) : \A k \in 0..(Len(g.c) - 1) :
      Take(At(g.c, k).CityLower, 1) = FirstChar(RangeTokens(1)[i])
        => (call[1].p.ranges[i].f <= k /\ k < call[1].p.ranges[i].t)


\* The number of bytes of the UTF-8 character that begins with the byte b.
Utf8Len(b) == IF b < 128 THEN 1 ELSE IF b < 224 THEN 2 ELSE IF b < 240 THEN 3 ELSE 4

\* The bytes of the first n characters of s, for n of 1 or 2; the empty
\* string when s has fewer characters.
CharPrefix(s, n) ==
  LET l1 == IF s = << >> THEN 0 ELSE Utf8Len(s[1])
      l2 == IF l1 = 0 \/ Len(s) <= l1 THEN 0 ELSE l1 + Utf8Len(s[l1 + 1])
      l == IF n = 1 THEN l1 ELSE l2
  IN IF l = 0 \/ l > Len(s) THEN << >> ELSE Take(s, l)

\* The highest of the positions `hits`.
LastPosition(hits) == CHOOSE k \in hits : \A j \in hits : j <= k

\* C18: after the index build the keys of the NameIndex are
\* exactly the 1-character and 2-character prefixes of the case-folded names
\* of the store, and the value of a key is the highest position whose
\* case-folded name starts with that key.
IndexHoldsCharPrefixes ==
  (boot.n > 0 /\ boot.rebuilt) =>
    LET c == boot.g.c
        Positions == 0..(Len(c) - 1)
        Prefixes == {CharPrefix(At(c, k).CityLower, n) : k \in Positions, n \in {1, 2}} \ {<< >>}
    IN /\ DOMAIN boot.idx = Prefixes
       /\ \A key \in DOMAIN boot.idx :
            LET hits == {k \in Positions : HasPrefix(At(c, k).CityLower, key)}
            IN hits # {} /\ boot.idx[key] = LastPosition(hits)

\* The keys a record is indexed under: its first byte read as a code point
\* and, when it has two bytes, its first two bytes.
IndexKeys(lower) ==
  {RuneString(lower[1])} \cup (IF Len(lower) >= 2 THEN {Take(lower, 2)} ELSE {})

\* What the build does leave: the keys of the index are exactly the first
\* byte, read as a code point, and the first two bytes of the case-folded
\* names of the store (for a name that begins with two ASCII characters: its
\* 1-character and 2-character prefixes), the value of a key is the highest
\* position of a record indexed under that key, and every value is a valid
\* position.
IndexHoldsBytePrefixes ==
  (boot.n > 0 /\ boot.rebuilt) =>
    LET c == boot.g.c
        Positions == 0..(Len(c) - 1)
    IN /\ DOMAIN boot.idx = UNION {IndexKeys(At(c, k).CityLower) : k \in Positions}
       /\ \A key \in DOMAIN boot.idx :
            LET hits == {k \in Positions : key \in IndexKeys(At(c, k).CityLower)}
            IN /\ hits # {}
               /\ boot.idx[key] = LastPosition(hits)
               /\ boot.idx[key] \in Positions
       /\ proc = "up" => cityNameIdx = boot.idx


\* The country name `name` is a leading segment of n, "Country rest" or
\* "Country, rest": the offset after the segment, or -1.
LeadingSegment(n, name) == OptCommaSpaceAt(n, LitAt(n, 0, name))

\* The country name `name` is a trailing segment of n, "rest Country" or
\* "rest, Country": the offset at which the segment begins (the comma or the
\* space before the name), or -1.
TrailingSegment(n, name) ==
  LET at == Len(n) - Len(name)
  IN IF at >= 1 /\ LitAt(n, at, name) = Len(n) /\ IsSpace(n[at])
     THEN (IF at >= 2 /\ n[at - 1] = chComma THEN at - 2 ELSE at - 1)
     ELSE -1

\* The country step as described: each country of the table in order, its
\* name looked for as a leading or trailing segment of the working query,
\* its ISO code remembered and the segment removed on a match.
RECURSIVE SegmentLoop(_, _, _, _)
SegmentLoop(co, i, n, nCo) ==
  IF i > Len(co) THEN [n |-> n, nCo |-> nCo]
  ELSE LET lead == LeadingSegment(n, co[i].Country)
           afterLead == IF lead = -1 THEN n ELSE Drop(n, lead)
           trail == TrailingSegment(afterLead, co[i].Country)
           afterTrail == IF trail = -1 THEN afterLead ELSE Take(afterLead, trail)
       IN SegmentLoop(co, i + 1, afterTrail,
                      IF lead = -1 /\ trail = -1 THEN nCo ELSE co[i].ISO)

\* C19: the country code a Geocode call remembers is the ISO code of the
\* last country of the table, in table order, whose full name stands in the
\* working query as a leading segment ("Country rest", "Country, rest") or as
\* a trailing segment ("rest Country", "rest, Country"), the segments of the
\* countries before it removed; it is empty when no country stands so.
GeocodeDetectsCountry ==
  GeocodeParsed(1) =>
    call[1].p.nCo = SegmentLoop(g.co, 1, TrimSpace(call[1].q), << >>).nCo


\* C20: every contiguous non-space token of 2 to 3 characters of the query,
\* wherever it stands in the query, is one of the candidate abbreviations of
\* the call (the abbreviations the region rule, +5, and the country rule, +3,
\* are applied to).
GeocodeAbbreviatesEveryToken ==
  (GeocodeParsed(1) /\ ~call[1].p.empty) =>
    \A i \in DOMAIN Fields(call[1].q) :
      Len(Fields(call[1].q)[i]) \in {2, 3}
        => Fields(call[1].q)[i] \in Range(call[1].p.abbrevSlice)


\* The scores of caller t's call before the population block: the points the
\* scan of its ranges has accumulated, by key.
ScanScoresOf(t) == GeocodeScan(g.c, call[t].p).scores

\* C21: the population block of a call that ends by its scores.  With no
\* country detected, the final scores are the scan's scores, +1 on every
\* candidate of population 1000 or more and one further +1 on one candidate
\* of the highest population among the candidates (none is required when no
\* candidate has a population figure); no key that is not a candidate holds
\* points.  With a country detected, the final scores are the scan's scores.
GeocodePopulationPrior ==
  (GeocodeDone(1) /\ call[1].ret.via = "scored") =>
    LET scan == ScanScoresOf(1)
        final == call[1].ret.scores
        pop(k) == At(g.c, k).Population
        top == {h \in DOMAIN scan : \A k \in DOMAIN scan : pop(k) <= pop(h)}
        with(h) == [k \in DOMAIN scan |->
                      scan[k] + B2N(pop(k) >= 1000) + B2N(k = h)]
    IN IF call[1].p.nCo # << >> THEN final = scan
       ELSE \/ \E h \in top : final = with(h)
            \/ (\A k \in DOMAIN scan : pop(k) = 0) /\ final = scan


\* C22: a record is scored once per call: the points the scan accumulates
\* under a key are the points of one enumeration of the record scored under
\* that key (the record before the key's position, see ScanRange), however
\* many tokens of the query resolve to a range that holds it.
GeocodeScoresOnce ==
  GeocodeParsed(1) =>
    \A k \in DOMAIN ScanScoresOf(1) :
      ScanScoresOf(1)[k] = Points(At(g.c, k - 1), call[1].p)


\* C23: a call with a non-empty query in which no enumerated record earns a
\* point does not return the empty record: it returns the record at the first
\* position of the store.
GeocodeNoPointsReturnsFirst ==
  (GeocodeDone(1) /\ ~call[1].p.empty /\ call[1].ret.via # "exact"
     /\ GeocodeScan(g.c, call[1].p).via = "scan" /\ DOMAIN ScanScoresOf(1) = {})
    => /\ call[1].ret.kind = "ok"
       /\ call[1].ret.via = "scored"
       /\ call[1].ret.key = 0
       /\ call[1].ret.city = At(g.c, 0)
       /\ call[1].ret.city # EmptyCity

\* A call has returned whose ranges enumerate records none of which earned a
\* point, on a store whose first record has no population figure.
GeocodeNoPointsReturnsFirstWitness ==
  /\ GeocodeDone(1)
  /\ ~call[1].p.empty
  /\ GeocodeScan(g.c, call[1].p).via = "scan"
  /\ DOMAIN ScanScoresOf(1) = {}
  /\ \E i \in DOMAIN call[1].p.ranges : call[1].p.ranges[i].f < call[1].p.ranges[i].t
  /\ At(g.c, 0).Population = 0
  /\ call[1].ret.scores = NoScores
  /\ call[1].ret.city = At(g.c, 0)


\* C24: after a NewGeobed that rebuilt and stored, the content of each of
\* the three snapshot files is exactly the serialization of the structure
\* just built: no byte of an earlier snapshot remains.
RebuildOverwritesSnapshots ==
  (boot.n > 0 /\ boot.rebuilt) =>
    /\ files.c = [exists |-> TRUE, bytes |-> GobEncode(boot.g.c)]
    /\ files.co = [exists |-> TRUE, bytes |-> GobEncode(boot.g.co)]
    /\ files.idx = [exists |-> TRUE, bytes |-> GobEncode(MapEntries(boot.idx, DOMAIN boot.idx))]


\* C25: after a NewGeobed whose fetches failed (http.Get failed, or the copy
\* of the response failed), no file it had to fetch is left on disk: each is
\* absent, so that the next start fetches it again.
FailedFetchRemovesFile ==
  (boot.n > 0 /\ boot.net \in {"cut", "down"}) =>
    \A f \in Range(dataSetFiles) :
      boot.before.raw[f] = "absent" => files.raw[f] = "absent"


\* C26: a malformed row never aborts the load.  A NewGeobed that had to
\* rebuild and had the three raw files whole on disk, found or fetched, runs
\* the load to its end whatever the rows hold: the process does not die,
\* and the well-formed rows, those after a malformed one included, are
\* loaded.
MalformedRowsDoNotAbort ==
  (boot.n > 0 /\ boot.net \in {"up", "none"} /\ files.raw = WholeRaw
     /\ NeedsRebuild(~boot.restored[1], ~boot.restored[2], ~boot.restored[3],
                     loadGeobedCityData(boot.before).val))
    => /\ ~boot.crashed
       /\ boot.rebuilt
       /\ \A i \in DOMAIN feed.geonames :
            GeonamesCities(feed.geonames[i]) # << >>
              => GeonamesCities(feed.geonames[i])[1] \in Range(boot.g.c)
       /\ \A i \in DOMAIN feed.countries :
            CountryRows(feed.countries[i]) # << >>
              => CountryRows(feed.countries[i])[1] \in Range(boot.g.co)


\* Two MaxMind rows have the same country, city and population fields.
SameTriple(a, b) == a.country = b.country /\ a.city = b.city /\ a.pop = b.pop

\* C27: MaxMind rows are duplicates of each other exactly when they have the
\* same country, city and population fields.  After a build in an empty
\* directory, of the 7-field rows of each (country, city, population) exactly
\* one is considered for ingestion, and when the rows of a triple give a
\* city, the store holds the city of one of them.
MaxMindDedupeByTriple ==
  (boot.n > 0 /\ boot.rebuilt /\ boot.before = NoFiles) =>
    \A i \in DOMAIN feed.maxmind :
      feed.maxmind[i].nf = 7 =>
        LET group == {j \in DOMAIN feed.maxmind :
                        feed.maxmind[j].nf = 7 /\ SameTriple(feed.maxmind[i], feed.maxmind[j])}
        IN /\ Cardinality(group \cap DedupedRows(feed.maxmind)) = 1
           /\ (\A j \in group : MaxMindCities(feed.maxmind[j]) # << >>)
                => \E j \in group : MaxMindCities(feed.maxmind[j])[1] \in Range(boot.g.c)


\* C28: the points a record's own fields earn are accumulated under the
\* position of that record: the key a visit of the scan scores under is the
\* position of the record it visits, so the record returned for the winning
\* key is the record whose fields earned the score.
GeocodeScoresOwnPosition ==
  GeocodeParsed(1) =>
    LET visits == ScanAll(g.c, SelectSeq(call[1].p.ranges, LAMBDA r : RangeOK(g.c, r)), 1)
    IN \A i \in DOMAIN visits :
         Points(visits[i].v, call[1].p) > 0
           => (visits[i].key < Len(g.c) /\ At(g.c, visits[i].key) = visits[i].v)


\* C29: a NewGeobed that rebuilt, whatever it had restored before, leaves a
\* city store and a country table that hold exactly the records parsed from
\* the raw feeds (they are a store and a table that a build in an empty
\* directory can leave), and the snapshots decode to them.
RebuildHoldsFeedsOnly ==
  (boot.n > 0 /\ boot.rebuilt) =>
    /\ \E l \in loadDataSets(NoInstance, feed) : boot.g = l.g
    /\ loadGeobedCityData(files).val = boot.g.c
    /\ loadGeobedCountryData(files).val = boot.g.co


\* C30: the index a Geocode call of an instance consults is the index built
\* or restored together with that instance's city store: the ranges the call
\* resolves are those this index gives, whatever NewGeobed calls the process
\* has made since or is making.
GeocodeConsultsOwnIndex ==
  GeocodeParsed(1) =>
    call[1].p.ranges = RangesOf(g.c, boot.idx, call[1].p.nSlice, 1)

====
